---- MODULE Spec2Model ----
(***************************************************************************)
(* A model of the synchronisation core of traffic_simulator.py: the two    *)
(* roads (light_state, cars, lock, condition), the car threads             *)
(* (car_process / can_cross), the light controller thread                  *)
(* (traffic_light_process) and the GUI thread's toggle / start / stop.     *)
(*                                                                         *)
(* Granularity.  Every access to state that another thread may read or     *)
(* write is a step of its own, except where the accesses of one critical   *)
(* section are all protected by the lock that every other accessor takes   *)
(* too.  road.lock and road.condition are two different locks (lines 77-78 *)
(* build the Condition on a fresh Lock), so a section under one of them    *)
(* interleaves with sections under the other.                              *)
(*                                                                         *)
(* Time is not modelled: a sleep is a point where other threads run, and a *)
(* loop bounded by wall-clock time runs a nondeterministic number of       *)
(* iterations.  position is counted in 1/CANVAS_WIDTH of the road, so the  *)
(* source's 0.1 is PositionStep and SAFE_DISTANCE / CANVAS_WIDTH is        *)
(* SAFE_DISTANCE.  waiting_time is counted in the 0.1 s slices the source  *)
(* adds per wake-up.  The redraw (update_gui_display), which only reads the *)
(* roads under road.lock, is a step of NextRedraw and SpecRedraw alone.     *)
(***************************************************************************)
EXTENDS Integers, Sequences, FiniteSets, TLC

\* ---------------------------------------------------------------- bounds

\* car threads that exist over the whole behaviour (all runs together)
MaxCars == 2
\* calls of start_simulation the operator makes
MaxStarts == 1
\* light threads that exist over the whole behaviour
MaxLights == 2
\* wake-ups a car may count before waiting_time > MAX_WAITING_TIME
\* (MAX_WAITING_TIME / 0.1 = 300 in the source)
MaxWaitSlices == 1
\* iterations of the crossing loop (CAR_CROSSING_TIME / 0.1 = 20 in the source)
MaxCrossSteps == 1
\* the same for an operator who starts, stops and starts again
RestartStarts == 2
RestartCars == 1
\* cars of the run in which the crossing loop gets all its iterations
LongCars == 1

\* ------------------------------------------------------ program constants

CAR_CROSSING_TIME == 2
CANVAS_WIDTH == 500
SAFE_DISTANCE == 10
PositionStep == CANVAS_WIDTH \div 10

\* lines 514-516: every iteration of the crossing loop sleeps 0.1 s, so the
\* loop has at most CAR_CROSSING_TIME / 0.1 iterations
CrossIterations == CAR_CROSSING_TIME * 10

RoadNums == {1, 2}
Threads == 1 .. MaxCars
LightThreads == 1 .. MaxLights

\* the holder of a lock: nobody, a car thread, or the GUI thread
Free == 0
GuiThread == MaxCars + 1

\* the decimal texts of the numbers the model uses
DigitText == <<"0", "1", "2", "3", "4">>

\* int(text): IsInt is "int() does not raise"
IsInt(text) == \E n \in 0 .. 4 : DigitText[n + 1] = text
ParseInt(text) == CHOOSE n \in 0 .. 4 : DigitText[n + 1] = text

\* texts the operator can type into the entries; "x" is a text that is no
\* number, "3" is what k_entry holds at first (line 183)
CarsTexts == {"x"} \cup {DigitText[n + 1] : n \in 0 .. MaxCars}
KTexts == {"x", "1", "3"}
CaseTexts == {"1", "2"}

VARIABLES
    is_running,      \* self.is_running
    case_type,       \* self.case_type
    k_entry,         \* text of self.k_entry
    light_state,     \* road.light_state, per road
    cars,            \* road.cars, per road: a sequence of car threads
    lock,            \* holder of road.lock, per road
    condition,       \* holder of road.condition's lock, per road
    gui,             \* position of the GUI thread in toggle/start/stop
    num_cars,        \* start_simulation's local num_cars
    stop_alone,      \* stop_simulation is running and was called with no thread alive
    starts_left,     \* calls of start_simulation the operator still makes
    cars_left,       \* car threads the operator may still ask for
    cross_cap,       \* iterations of the crossing loop CAR_CROSSING_TIME allows
    lpc,             \* position of each light thread
    lroad,           \* road_num of each light thread's for loop
    pc,              \* position of each car thread
    id,              \* car.id
    road_num,        \* car.road_num
    state,           \* car.state
    position,        \* car.position
    waiting_time,    \* car.waiting_time
    k,               \* can_cross's local k
    scan_i,          \* next index of the iteration over road.cars in can_cross
    crossing_cars    \* can_cross's local crossing_cars

vars == <<is_running, case_type, k_entry, light_state, cars, lock, condition,
          gui, num_cars, stop_alone, starts_left, cars_left, cross_cap, lpc, lroad,
          pc, id, road_num, state, position, waiting_time, k, scan_i, crossing_cars>>

roadVars == <<light_state, cars, lock, condition>>
guiVars == <<gui, num_cars, stop_alone, starts_left, cars_left, cross_cap>>
flagVars == <<is_running, case_type, k_entry>>
lightVars == <<lpc, lroad>>
carLocals == <<k, scan_i, crossing_cars>>
carFields == <<id, road_num, state, position, waiting_time>>

\* ------------------------------------------------------------------ Init

\* the state after __init__ (lines 62-98) for an operator who makes `starts`
\* calls of start_simulation and asks for `ncars` cars in all, and a machine
\* on which the crossing loop gets `cap` iterations
InitWith(starts, ncars, cap) ==
    /\ is_running = FALSE
    /\ case_type = 1
    /\ k_entry = "3"
    /\ light_state = [r \in RoadNums |-> "RED"]
    /\ cars = [r \in RoadNums |-> << >>]
    /\ lock = [r \in RoadNums |-> Free]
    /\ condition = [r \in RoadNums |-> Free]
    /\ gui = "idle"
    /\ num_cars = 0
    /\ stop_alone = FALSE
    /\ starts_left = starts
    /\ cars_left = ncars
    /\ cross_cap = cap
    /\ lpc = [t \in LightThreads |-> "new"]
    /\ lroad = [t \in LightThreads |-> 1]
    /\ pc = [c \in Threads |-> "new"]
    /\ id = [c \in Threads |-> 0]
    /\ road_num = [c \in Threads |-> 1]
    /\ state = [c \in Threads |-> "waiting"]
    /\ position = [c \in Threads |-> 0]
    /\ waiting_time = [c \in Threads |-> 0]
    /\ k = [c \in Threads |-> 0]
    /\ scan_i = [c \in Threads |-> 0]
    /\ crossing_cars = [c \in Threads |-> << >>]

Init == InitWith(MaxStarts, MaxCars, MaxCrossSteps)

InitRestart == InitWith(RestartStarts, RestartCars, MaxCrossSteps)

InitLongCrossing == InitWith(MaxStarts, LongCars, CrossIterations)

\* --------------------------------------------------------------- helpers

\* condition.notify_all(): every thread blocked in condition.wait() on road r
\* is woken and has to take the condition's lock again
NotifyAll(r) ==
    [c \in Threads |-> IF pc[c] = "wait" /\ road_num[c] = r THEN "woken" ELSE pc[c]]

\* lines 41-48: Car is a dataclass, so == (which list.remove and `in` use)
\* compares the fields; speed is 0.0 in every car
CarEq(a, b) ==
    /\ id[a] = id[b]
    /\ road_num[a] = road_num[b]
    /\ position[a] = position[b]
    /\ waiting_time[a] = waiting_time[b]
    /\ state[a] = state[b]

\* list.remove(x): the first element equal to x goes
RECURSIVE Remove(_, _)
Remove(s, x) ==
    IF s = << >> THEN << >>
    ELSE IF CarEq(Head(s), x) THEN Tail(s)
    ELSE <<Head(s)>> \o Remove(Tail(s), x)

\* x in s
InList(s, x) == \E i \in 1 .. Len(s) : CarEq(s[i], x)

\* max(crossing_cars, key=position) . position
MaxPosition(s) ==
    CHOOSE p \in {position[s[i]] : i \in 1 .. Len(s)} :
        \A i \in 1 .. Len(s) : position[s[i]] <= p

\* ------------------------------------------------------------ car_process

\* a plausible slip: the light test of line 500 left out
LightIgnored(r) == r \in RoadNums

\* line 500: the light lets cars in
LightAllows(r) == light_state[r] = "GREEN" \/ light_state[r] = "YELLOW"

\* line 498: the loop condition of the waiting loop
LoopContinues(c) == is_running /\ state[c] # "exited"

\* a plausible slip: the crossing phase is entered without the test of line 512
AfterLoopUntested(c) == "cross"

\* line 512: if car.state == "crossing", on leaving the waiting loop: the
\* crossing phase, or the end of the thread
AfterLoop(c) == IF state[c] = "crossing" THEN "cross" ELSE "done"

\* line 508: the car has waited too long
TimedOut(w) == w > MaxWaitSlices

\* a plausible slip: the test of lines 540-541 (a car at the start of the
\* road may go) left out, so that the spacing comparison decides
CanCrossNoStartTest(c) ==
    IF crossing_cars[c] = << >> THEN TRUE
    ELSE IF Len(crossing_cars[c]) >= k[c] THEN FALSE
    ELSE position[c] - MaxPosition(crossing_cars[c]) >= SAFE_DISTANCE

\* lines 532-548: the result of can_cross in case 2 once crossing_cars is built
CanCrossBounded(c) ==
    IF crossing_cars[c] = << >> THEN TRUE
    ELSE IF Len(crossing_cars[c]) >= k[c] THEN FALSE
    ELSE IF position[c] = 0 THEN TRUE
    ELSE position[c] - MaxPosition(crossing_cars[c]) >= SAFE_DISTANCE

\* leaving can_cross: its locals are gone
DropLocals(c) ==
    /\ k' = [k EXCEPT ![c] = 0]
    /\ scan_i' = [scan_i EXCEPT ![c] = 0]
    /\ crossing_cars' = [crossing_cars EXCEPT ![c] = << >>]

\* a plausible slip: the crossing phase placed inside the with block, so
\* that the car keeps the condition's lock while it crosses and exits
AdmitInsideWith(c) ==
    /\ state' = [state EXCEPT ![c] = "crossing"]
    /\ pc' = [pc EXCEPT ![c] = "cross"]
    /\ DropLocals(c)
    /\ UNCHANGED <<roadVars, id, road_num, position, waiting_time>>

\* lines 502-504: car.state = "crossing"; break (the with block gives the
\* condition's lock back)
Admit(c) ==
    /\ state' = [state EXCEPT ![c] = "crossing"]
    /\ condition' = [condition EXCEPT ![road_num[c]] = Free]
    /\ pc' = [pc EXCEPT ![c] = "cross"]
    /\ DropLocals(c)
    /\ UNCHANGED <<light_state, cars, lock, id, road_num, position, waiting_time>>

\* line 506: road.condition.wait(): registered as a waiter, lock released
Block(c) ==
    /\ condition' = [condition EXCEPT ![road_num[c]] = Free]
    /\ pc' = [pc EXCEPT ![c] = "wait"]
    /\ DropLocals(c)
    /\ UNCHANGED <<light_state, cars, lock, carFields>>

\* lines 494-496: with road.lock: road.cars.append(car)
CarArrive(c) ==
    /\ pc[c] = "arrive"
    /\ lock[road_num[c]] = Free
    /\ cars' = [cars EXCEPT ![road_num[c]] = Append(@, c)]
    /\ pc' = [pc EXCEPT ![c] = "loop"]
    /\ UNCHANGED <<light_state, lock, condition, flagVars, guiVars, lightVars,
                   carFields, carLocals>>

\* line 498: while self.is_running and car.state != "exited"
CarLoop(c) ==
    /\ pc[c] = "loop"
    /\ pc' = [pc EXCEPT ![c] = IF LoopContinues(c) THEN "enter" ELSE AfterLoop(c)]
    /\ UNCHANGED <<roadVars, flagVars, guiVars, lightVars, carFields, carLocals>>

\* lines 499-501 and 525: with road.condition: the light test, then
\* can_cross reads self.case_type; on a light that is RED the car waits and
\* the condition's lock is free again
CarEnter(c) ==
    /\ pc[c] = "enter"
    /\ condition[road_num[c]] = Free
    /\ IF LightAllows(road_num[c])
       THEN /\ condition' = [condition EXCEPT ![road_num[c]] = c]
            /\ pc' = [pc EXCEPT ![c] = IF case_type = 1 THEN "scan_any" ELSE "read_k"]
            /\ scan_i' = [scan_i EXCEPT ![c] = IF case_type = 1 THEN 1 ELSE 0]
            /\ UNCHANGED <<light_state, cars, lock, carFields, k, crossing_cars>>
       ELSE /\ pc' = [pc EXCEPT ![c] = "wait"]
            /\ UNCHANGED <<roadVars, carFields, carLocals>>
    /\ UNCHANGED <<flagVars, guiVars, lightVars>>

\* line 528: k = int(self.k_entry.get()); a text that is no number raises
\* ValueError, which leaves the with block and ends the thread
CarReadK(c) ==
    /\ pc[c] = "read_k"
    /\ IF IsInt(k_entry)
       THEN /\ k' = [k EXCEPT ![c] = ParseInt(k_entry)]
            /\ scan_i' = [scan_i EXCEPT ![c] = 1]
            /\ pc' = [pc EXCEPT ![c] = "scan_list"]
            /\ UNCHANGED <<roadVars, crossing_cars>>
       ELSE /\ condition' = [condition EXCEPT ![road_num[c]] = Free]
            /\ pc' = [pc EXCEPT ![c] = "raised"]
            /\ UNCHANGED <<light_state, cars, lock, carLocals>>
    /\ UNCHANGED <<flagVars, guiVars, lightVars, carFields>>

\* line 526: any(c.state == "crossing" for c in road.cars), one element of
\* the list per step; the result decides lines 501-506
CarScanAny(c) ==
    /\ pc[c] = "scan_any"
    /\ LET r == road_num[c] IN
       IF scan_i[c] > Len(cars[r]) THEN Admit(c)
       ELSE IF state[cars[r][scan_i[c]]] = "crossing" THEN Block(c)
       ELSE /\ scan_i' = [scan_i EXCEPT ![c] = @ + 1]
            /\ UNCHANGED <<roadVars, pc, carFields, k, crossing_cars>>
    /\ UNCHANGED <<flagVars, guiVars, lightVars>>

\* line 529: crossing_cars = [c for c in road.cars if c.state == "crossing"],
\* one element of the list per step; then lines 532-548 and 501-506
CarScanList(c) ==
    /\ pc[c] = "scan_list"
    /\ LET r == road_num[c] IN
       IF scan_i[c] > Len(cars[r])
       THEN IF CanCrossBounded(c) THEN Admit(c) ELSE Block(c)
       ELSE /\ crossing_cars' = [crossing_cars EXCEPT ![c] =
                    IF state[cars[r][scan_i[c]]] = "crossing"
                    THEN Append(@, cars[r][scan_i[c]]) ELSE @]
            /\ scan_i' = [scan_i EXCEPT ![c] = @ + 1]
            /\ UNCHANGED <<roadVars, pc, carFields, k>>
    /\ UNCHANGED <<flagVars, guiVars, lightVars>>

\* lines 506-510: wait() returns with the condition's lock taken again;
\* waiting_time += 0.1; past MAX_WAITING_TIME the car gives up (break)
CarWake(c) ==
    /\ pc[c] = "woken"
    /\ condition[road_num[c]] = Free
    /\ waiting_time' = [waiting_time EXCEPT ![c] = @ + 1]
    /\ pc' = [pc EXCEPT ![c] = IF TimedOut(waiting_time[c] + 1) THEN AfterLoop(c) ELSE "loop"]
    /\ UNCHANGED <<roadVars, flagVars, guiVars, lightVars, id, road_num, state,
                   position, carLocals>>

\* lines 514-516: one iteration of the crossing loop
CarAdvance(c) ==
    /\ pc[c] = "cross"
    /\ position[c] < cross_cap * PositionStep
    /\ position' = [position EXCEPT ![c] = @ + PositionStep]
    /\ UNCHANGED <<roadVars, flagVars, guiVars, lightVars, pc, id, road_num, state,
                   waiting_time, carLocals>>

\* lines 514, 518-519: CAR_CROSSING_TIME has passed; with road.lock:
\* if car in road.cars
CarExitLock(c) ==
    /\ pc[c] = "cross"
    /\ lock[road_num[c]] = Free
    /\ lock' = [lock EXCEPT ![road_num[c]] = c]
    /\ pc' = [pc EXCEPT ![c] =
            IF InList(cars[road_num[c]], c) THEN "exit_remove" ELSE "exit_set"]
    /\ UNCHANGED <<light_state, cars, condition, flagVars, guiVars, lightVars,
                   carFields, carLocals>>

\* line 520: road.cars.remove(car); ValueError when the list was cleared
\* since the test, which leaves the with block and ends the thread
CarExitRemove(c) ==
    /\ pc[c] = "exit_remove"
    /\ IF InList(cars[road_num[c]], c)
       THEN /\ cars' = [cars EXCEPT ![road_num[c]] = Remove(@, c)]
            /\ pc' = [pc EXCEPT ![c] = "exit_set"]
            /\ UNCHANGED lock
       ELSE /\ lock' = [lock EXCEPT ![road_num[c]] = Free]
            /\ pc' = [pc EXCEPT ![c] = "raised"]
            /\ UNCHANGED cars
    /\ UNCHANGED <<light_state, condition, flagVars, guiVars, lightVars,
                   carFields, carLocals>>

\* lines 521-522: car.state = "exited", end of the with block
CarExitSet(c) ==
    /\ pc[c] = "exit_set"
    /\ state' = [state EXCEPT ![c] = "exited"]
    /\ lock' = [lock EXCEPT ![road_num[c]] = Free]
    /\ pc' = [pc EXCEPT ![c] = "done"]
    /\ UNCHANGED <<light_state, cars, condition, flagVars, guiVars, lightVars,
                   id, road_num, position, waiting_time, carLocals>>

\* ------------------------------------------------- traffic_light_process

\* line 551: while self.is_running
LightOuter(t) ==
    /\ lpc[t] = "outer"
    /\ lpc' = [lpc EXCEPT ![t] = IF is_running THEN "inner" ELSE "done"]
    /\ lroad' = [lroad EXCEPT ![t] = 1]
    /\ UNCHANGED <<roadVars, flagVars, guiVars, pc, carFields, carLocals>>

\* lines 552-554: for road_num in [1, 2]: if not self.is_running: break
LightInner(t) ==
    /\ lpc[t] = "inner"
    /\ lpc' = [lpc EXCEPT ![t] = IF ~is_running THEN "outer" ELSE "green"]
    /\ UNCHANGED <<roadVars, flagVars, guiVars, lroad, pc, carFields, carLocals>>

\* where the controller goes after turning a road RED: the next road of the
\* for loop, or back to the while test
AfterRed(t) == IF lroad[t] = 1 THEN "inner" ELSE "outer"

\* lines 559-563, 567-570, 574-577: with road.condition: set the light,
\* notify_all(); the sleeps of lines 565 and 572 separate the three
LightSet(t, at, colour, next) ==
    /\ lpc[t] = at
    /\ condition[lroad[t]] = Free
    /\ light_state' = [light_state EXCEPT ![lroad[t]] = colour]
    /\ pc' = NotifyAll(lroad[t])
    /\ lpc' = [lpc EXCEPT ![t] = next]
    /\ UNCHANGED <<cars, lock, condition, flagVars, guiVars, carFields, carLocals>>

LightGreen(t) ==
    /\ LightSet(t, "green", "GREEN", "yellow")
    /\ UNCHANGED lroad

LightYellow(t) ==
    /\ LightSet(t, "yellow", "YELLOW", "red")
    /\ UNCHANGED lroad

LightRed(t) ==
    /\ LightSet(t, "red", "RED", AfterRed(t))
    /\ lroad' = [lroad EXCEPT ![t] = IF @ = 1 THEN 2 ELSE 1]

\* ------------------------------------------------------------ GUI thread

\* lines 580-581, 586: the button while no run is active: start_simulation
\* begins with self.is_running = True
ToggleStart ==
    /\ gui = "idle"
    /\ ~is_running
    /\ starts_left > 0
    /\ \E t \in LightThreads : lpc[t] = "new"
    /\ is_running' = TRUE
    /\ starts_left' = starts_left - 1
    /\ gui' = "start_read"
    /\ UNCHANGED <<roadVars, case_type, k_entry, num_cars, stop_alone, cars_left,
                   cross_cap, lightVars, pc, carFields, carLocals>>

\* the car threads that do not exist yet
NewThreads == {c \in Threads : pc[c] = "new"}

\* lines 587-588: self.case_type = int(self.case_var.get());
\* num_cars = int(self.cars_entry.get()), which raises ValueError on a text
\* that is no number: the callback ends there
StartRead(case_var, cars_entry) ==
    /\ gui = "start_read"
    /\ case_type' = ParseInt(case_var)
    /\ IF IsInt(cars_entry)
       THEN /\ ParseInt(cars_entry) <= cars_left
            /\ num_cars' = ParseInt(cars_entry)
            /\ cars_left' = cars_left - ParseInt(cars_entry)
            /\ gui' = "start_clear_1"
       ELSE /\ num_cars' = 0
            /\ gui' = "idle"
            /\ UNCHANGED cars_left
    /\ UNCHANGED <<roadVars, is_running, k_entry, stop_alone, starts_left, cross_cap, lightVars,
                   pc, carFields, carLocals>>

\* a plausible slip: stop and start reset the light and forget road.cars
ClearRoadLightOnly(r) ==
    /\ condition[r] = Free
    /\ light_state' = [light_state EXCEPT ![r] = "RED"]
    /\ pc' = NotifyAll(r)
    /\ UNCHANGED <<cars, lock, condition, flagVars, num_cars, stop_alone, starts_left,
                   cars_left, cross_cap, lightVars, carFields, carLocals>>

\* lines 593-597 and 626-630: with road.condition: road.cars.clear();
\* road.light_state = RED; notify_all()
ClearRoad(r) ==
    /\ condition[r] = Free
    /\ cars' = [cars EXCEPT ![r] = << >>]
    /\ light_state' = [light_state EXCEPT ![r] = "RED"]
    /\ pc' = NotifyAll(r)
    /\ UNCHANGED <<lock, condition, flagVars, num_cars, stop_alone, starts_left,
                   cars_left, cross_cap, lightVars, carFields, carLocals>>

StartClear1 ==
    /\ gui = "start_clear_1"
    /\ ClearRoad(1)
    /\ gui' = "start_clear_2"

StartClear2 ==
    /\ gui = "start_clear_2"
    /\ ClearRoad(2)
    /\ gui' = "start_spawn"

\* the threads the loop of lines 610-615 starts: the first num_cars new ones
Spawned == {c \in NewThreads : Cardinality({d \in NewThreads : d < c}) < num_cars}

\* line 613: args=(i+1, road_num) for i in range(num_cars)
CarId(c) == Cardinality({d \in NewThreads : d < c}) + 1

\* the light thread lines 602-604 start: the first new one
NewLight == CHOOSE t \in LightThreads :
                /\ lpc[t] = "new"
                /\ \A u \in LightThreads : lpc[u] = "new" => t <= u

\* lines 602-615: the light thread and num_cars car threads are started,
\* each car on a road drawn by random.randint(1, 2); line 492 builds the Car
StartSpawn(roads) ==
    /\ gui = "start_spawn"
    /\ lpc' = [lpc EXCEPT ![NewLight] = "outer"]
    /\ pc' = [c \in Threads |-> IF c \in Spawned THEN "arrive" ELSE pc[c]]
    /\ id' = [c \in Threads |-> IF c \in Spawned THEN CarId(c) ELSE id[c]]
    /\ road_num' = [c \in Threads |-> IF c \in Spawned THEN roads[c] ELSE road_num[c]]
    /\ gui' = "idle"
    /\ num_cars' = 0
    /\ UNCHANGED <<roadVars, flagVars, stop_alone, starts_left, cars_left, cross_cap,
                   lroad, state, position, waiting_time, carLocals>>

\* no run is active: no car thread and no light thread is alive
NoThreadAlive ==
    /\ \A c \in Threads : pc[c] \in {"new", "done", "raised"}
    /\ \A t \in LightThreads : lpc[t] \in {"new", "done"}

\* lines 582-583, 620: the button while a run is active: stop_simulation
\* begins with self.is_running = False
ToggleStop ==
    /\ gui = "idle"
    /\ is_running
    /\ is_running' = FALSE
    /\ gui' = "stop_clear_1"
    /\ stop_alone' = NoThreadAlive
    /\ UNCHANGED <<roadVars, case_type, k_entry, num_cars, starts_left, cars_left,
                   cross_cap, lightVars, pc, carFields, carLocals>>

StopClear1 ==
    /\ gui = "stop_clear_1"
    /\ ClearRoad(1)
    /\ gui' = "stop_clear_2"

StopClear2 ==
    /\ gui = "stop_clear_2"
    /\ ClearRoad(2)
    /\ gui' = "stop_join"

\* lines 634-637: join(timeout=1.0) on the light and display threads returns
\* when the thread has ended or the second has passed
StopJoin ==
    /\ gui = "stop_join"
    /\ gui' = "idle"
    /\ stop_alone' = FALSE
    /\ UNCHANGED <<roadVars, flagVars, num_cars, starts_left, cars_left, cross_cap,
                   lightVars, pc, carFields, carLocals>>

\* the operator types another text into k_entry (lines 174-183: a plain
\* entry, never disabled)
EditK(text) ==
    /\ gui = "idle"
    /\ text # k_entry
    /\ k_entry' = text
    /\ UNCHANGED <<roadVars, is_running, case_type, guiVars, lightVars, pc,
                   carFields, carLocals>>

\* lines 336-348, 392-395: the display thread, started with the light
\* thread, queues "update_display" messages; process_messages runs
\* update_gui_display for each of them between two callbacks
RedrawQueued == \E t \in LightThreads : lpc[t] # "new"

\* lines 353-355: with road.lock, for the road the for loop is at
RedrawEnter(at, r) ==
    /\ gui = at
    /\ lock[r] = Free
    /\ lock' = [lock EXCEPT ![r] = GuiThread]
    /\ UNCHANGED <<light_state, cars, condition, flagVars, num_cars, stop_alone,
                   starts_left, cars_left, cross_cap, lightVars, pc, carFields,
                   carLocals>>

\* lines 356-387: the labels, the light and the cars of the road are drawn
\* from road.light_state and road.cars; end of the with block
RedrawLeave(at, r) ==
    /\ gui = at
    /\ lock' = [lock EXCEPT ![r] = Free]
    /\ UNCHANGED <<light_state, cars, condition, flagVars, num_cars, stop_alone,
                   starts_left, cars_left, cross_cap, lightVars, pc, carFields,
                   carLocals>>

RedrawEnter1 ==
    /\ RedrawQueued
    /\ RedrawEnter("idle", 1)
    /\ gui' = "redraw_1"

RedrawLeave1 ==
    /\ RedrawLeave("redraw_1", 1)
    /\ gui' = "redraw_next"

RedrawEnter2 ==
    /\ RedrawEnter("redraw_next", 2)
    /\ gui' = "redraw_2"

RedrawLeave2 ==
    /\ RedrawLeave("redraw_2", 2)
    /\ gui' = "idle"

\* ------------------------------------------------------------------ Next

CarStep(c) ==
    \/ CarArrive(c)
    \/ CarLoop(c)
    \/ CarEnter(c)
    \/ CarReadK(c)
    \/ CarScanAny(c)
    \/ CarScanList(c)
    \/ CarWake(c)
    \/ CarAdvance(c)
    \/ CarExitLock(c)
    \/ CarExitRemove(c)
    \/ CarExitSet(c)

LightStep(t) ==
    \/ LightOuter(t)
    \/ LightInner(t)
    \/ LightGreen(t)
    \/ LightYellow(t)
    \/ LightRed(t)

\* the steps of a callback the GUI thread is in the middle of
GuiStep ==
    \/ \E case_var \in CaseTexts, cars_entry \in CarsTexts : StartRead(case_var, cars_entry)
    \/ StartClear1
    \/ StartClear2
    \/ \E roads \in [Threads -> RoadNums] : StartSpawn(roads)
    \/ StopClear1
    \/ StopClear2
    \/ StopJoin

\* what the operator does
Operator ==
    \/ ToggleStart
    \/ ToggleStop
    \/ \E text \in KTexts : EditK(text)

Next ==
    \/ \E c \in Threads : CarStep(c)
    \/ \E t \in LightThreads : LightStep(t)
    \/ GuiStep
    \/ Operator

Spec == Init /\ [][Next]_vars

\* update_gui_display, run by the GUI thread
RedrawStep ==
    \/ RedrawEnter1
    \/ RedrawLeave1
    \/ RedrawEnter2
    \/ RedrawLeave2

NextRedraw ==
    \/ Next
    \/ RedrawStep

\* the program with its redraws
SpecRedraw == Init /\ [][NextRedraw]_vars

\* the operator starts, stops and starts again
SpecRestart == InitRestart /\ [][Next]_vars

\* the crossing loop runs as long as CAR_CROSSING_TIME lets it
SpecLongCrossing == InitLongCrossing /\ [][Next]_vars

\* the scheduler lets every thread that can take a step take one; what the
\* operator does (Operator) is under no obligation
FairSpec ==
    /\ Spec
    /\ \A c \in Threads : WF_vars(CarStep(c))
    /\ \A t \in LightThreads : WF_vars(LightStep(t))
    /\ WF_vars(GuiStep)

\* a light that is held: the car threads and the GUI thread are scheduled
\* fairly, the light thread may stay asleep for good
HeldLightSpec ==
    /\ Spec
    /\ \A c \in Threads : WF_vars(CarStep(c))
    /\ WF_vars(GuiStep)

\* ---------------------------------------------------------------- claims

\* a run is active and start_simulation has returned
RunActive == is_running /\ gui = "idle"

\* the Car objects of threads that run: a thread that has not been started
\* has no Car yet, and the Car of a thread that has ended is dropped
Live(c) == pc[c] \notin {"new", "done", "raised"}

\* the cars of road r whose state is "crossing"
Crossing(r) == {c \in Threads : Live(c) /\ road_num[c] = r /\ state[c] = "crossing"}

\* the step in which car c goes from "waiting" to "crossing"
Admitted(c) == state[c] = "waiting" /\ state'[c] = "crossing"

\* C1: in case 1 at most one car of a road has state "crossing", in every
\* reachable state (stated of the states of a run that has not been stopped).
C1_MutualExclusion ==
    (RunActive /\ case_type = 1) => \A r \in RoadNums : Cardinality(Crossing(r)) <= 1

\* C2: in case 2 the cars of a road with state "crossing" are at most k.
\* The number only grows when a car is admitted, so the claim is stated of
\* every admission of a run that has not been stopped, with the k that
\* admission's can_cross read.
C2_CapacityBound ==
    [][\A c \in Threads :
          (RunActive /\ pc[c] = "scan_list" /\ Admitted(c))
              => Cardinality(Crossing(road_num[c]))' <= k[c]]_vars

\* C3: whenever a car goes from "waiting" to "crossing", the light of its
\* road is GREEN or YELLOW at that step.
C3_NoPhantomCrossing ==
    [][\A c \in Threads :
          Admitted(c) => light_state[road_num[c]] \in {"GREEN", "YELLOW"}]_vars

\* C3 witness: a car has just been admitted under a YELLOW light
C3_Witness ==
    \E c \in Threads :
        /\ pc[c] = "cross" /\ state[c] = "crossing" /\ position[c] = 0
        /\ light_state[road_num[c]] = "YELLOW"

\* C4: in case 2, two cars crossing on the same road, both with
\* position > 0, are at least SAFE_DISTANCE / CANVAS_WIDTH apart.
C4_Spacing ==
    (RunActive /\ case_type = 2) =>
        \A r \in RoadNums : \A a, b \in Crossing(r) :
            (a # b /\ position[a] > 0 /\ position[b] > 0)
                => \/ position[a] - position[b] >= SAFE_DISTANCE
                   \/ position[b] - position[a] >= SAFE_DISTANCE

\* C5: a car whose waiting_time has passed MAX_WAITING_TIME is removed from
\* road.cars (its thread having ended) and never gets to "crossing".
C5_TimeoutRemoves ==
    \A c \in Threads :
        (RunActive /\ pc[c] = "done" /\ TimedOut(waiting_time[c]))
            => /\ ~InList(cars[road_num[c]], c)
               /\ state[c] # "crossing"

\* C6: a car's state only moves waiting -> crossing -> exited, and goes from
\* waiting straight to exited only when the car was abandoned by timeout.
C6_LifecycleMonotone ==
    [][\A c \in Threads :
          state'[c] # state[c] =>
              \/ state[c] = "waiting" /\ state'[c] = "crossing"
              \/ state[c] = "crossing" /\ state'[c] = "exited"
              \/ /\ state[c] = "waiting" /\ state'[c] = "exited"
                 /\ TimedOut(waiting_time[c])]_vars

\* C6 witness: a car has gone through the whole lifecycle
C6_Witness ==
    \E c \in Threads : pc[c] = "done" /\ state[c] = "exited" /\ position[c] > 0

\* stop_simulation has run to its end and the operator starts no other run
StopCompleted == ~is_running /\ gui = "idle" /\ starts_left = 0

\* C7: after a completed stop that no start follows, every car thread ends.
C7_CancellationLiveness ==
    StopCompleted ~> (\A c \in Threads : ~Live(c))

\* C8: no car goes from "waiting" to "crossing" while is_running is false.
C8_NoAdmissionAfterStop ==
    [][\A c \in Threads : Admitted(c) => is_running]_vars

\* C9: a start_simulation that raises on the text of cars_entry leaves
\* is_running false and has started no thread.
C9_FailedStartLeavesNoRun ==
    [][(gui = "start_read" /\ gui' = "idle")
          => /\ ~is_running'
             /\ \A c \in Threads : pc'[c] = "new"
             /\ \A t \in LightThreads : lpc'[t] = "new"]_vars

\* the mode and the capacity can_cross applies when it is called now
\* (lines 525 and 528)
AppliedMode == case_type
AppliedCapacity == k_entry

\* C10: while a run is active, the mode and the capacity can_cross applies
\* stay the ones the run was started with.
C10_AdmissionConfigFixed ==
    [][(RunActive /\ RunActive')
          => /\ AppliedMode' = AppliedMode
             /\ AppliedCapacity' = AppliedCapacity]_vars

\* the steps of the cycle RED -> GREEN -> YELLOW -> RED
CycleStep(old, new) ==
    \/ old = "RED" /\ new = "GREEN"
    \/ old = "GREEN" /\ new = "YELLOW"
    \/ old = "YELLOW" /\ new = "RED"

\* C11: every change of a road's light_state is RED -> GREEN,
\* GREEN -> YELLOW or YELLOW -> RED.  start and stop put a light back to RED
\* from any colour (lines 595 and 628); the formula lets those steps of the
\* GUI thread pass and is about every other change.
C11_LightPhaseCycle ==
    [][\A r \in RoadNums :
          (light_state'[r] # light_state[r] /\ gui' = gui)
              => CycleStep(light_state[r], light_state'[r])]_vars

\* the light threads that are between the test of is_running (line 553) and
\* the RED of line 575, i.e. that are going to write a light
Driving == {t \in LightThreads : lpc[t] \in {"green", "yellow", "red"}}

\* C12: at most one light thread drives the lights, whatever sequence of
\* starts and stops the operator makes.
C12_SingleLightController == Cardinality(Driving) <= 1

\* the threads that are inside a with block of road r: `with road.lock`
\* (lines 494, 518) or `with road.condition` (line 499)
InSection(r) == {c \in Threads : lock[r] = c \/ condition[r] = c}

\* C13: all accesses to a road's light_state and cars are made under one
\* lock, so no two threads are at once inside sections that access the cars
\* of the same road.
C13_SingleLockPerRoad == \A r \in RoadNums : Cardinality(InSection(r)) <= 1

\* car.position < 1 in the floats of the source: position is the sum of n
\* times 0.1, which is 0.9999999999999999 for n = 10 and above 1 from n = 11
BelowOne(p) == p <= CANVAS_WIDTH

\* C14: 0 <= position < 1 for every car in every reachable state, and
\* position is 0 while the car's state is "waiting".
C14_ProgressRange ==
    \A c \in Threads :
        /\ 0 <= position[c]
        /\ BelowOne(position[c])
        /\ state[c] = "waiting" => position[c] = 0

\* no element of a road's cars has state "exited"
NoExitedInCars ==
    \A r \in RoadNums : \A i \in 1 .. Len(cars[r]) : state[cars[r][i]] # "exited"

\* car c's thread has ended in the ValueError of road.cars.remove(car)
\* (line 520): the only other raise, line 528, comes before "crossing"
RemoveRaised(c) == pc[c] = "raised" /\ state[c] = "crossing"

\* C15: a road's cars never holds a car whose state is "exited"; the car is
\* removed before its state is set, and for a car that is no longer in the
\* list the removal does nothing (it is no error).
C15_NoExitedInCollection ==
    /\ NoExitedInCars
    /\ \A c \in Threads : ~RemoveRaised(c)

\* the cars that have been started on road r
OnRoad(r) == {c \in Threads : pc[c] # "new" /\ road_num[c] = r}

\* a run in case 1 with several cars on road r, whose light is GREEN
HeldGreen(r) ==
    /\ RunActive
    /\ case_type = 1
    /\ light_state[r] = "GREEN"
    /\ Cardinality(OnRoad(r)) >= 2

\* the cars started on road r have all got to "exited"
AllExited(r) == OnRoad(r) # {} /\ \A c \in OnRoad(r) : state[c] = "exited"

\* C16: in case 1, when several cars are started on a road whose light is
\* set GREEN once and stays GREEN from then on, every one of these cars
\* eventually has state "exited".
C16_HeldGreenAllExit ==
    \A r \in RoadNums :
        ([](light_state[r] # "YELLOW") /\ <>[]HeldGreen(r))
            => <>AllExited(r)

EndedByExitOrTimeout(c) ==
    /\ pc[c] = "done"
    /\ state[c] = "exited" \/ TimedOut(waiting_time[c])

\* C18: in a run that is never stopped, with every thread scheduled fairly,
\* every car thread that was started ends, with its car "exited" or
\* abandoned because waiting_time has passed MAX_WAITING_TIME.
C18_CarTermination ==
    \A c \in Threads : (pc[c] # "new") ~> (EndedByExitOrTimeout(c) \/ ~is_running)

\* the roads whose light is GREEN or YELLOW
OpenRoads == {r \in RoadNums : light_state[r] \in {"GREEN", "YELLOW"}}

\* C20: at most one of the two roads has a GREEN or YELLOW light, whatever
\* sequence of starts, stops and steps of the light thread has happened.
C20_AlternatingLights == Cardinality(OpenRoads) <= 1

\* the threads that take locks one at a time and keep them over steps; the
\* with blocks of the light threads and of start and stop are single steps
\* that take and release one condition
LockUsers == Threads \cup {GuiThread}

\* the locks thread a holds
Held(a) ==
    {<<"lock", r>> : r \in {q \in RoadNums : lock[q] = a}}
        \cup {<<"condition", r>> : r \in {q \in RoadNums : condition[q] = a}}

\* thread a is at a point where its next step takes a lock or a condition
\* (lines 494, 499, 506, 518 for a car; 355, 593, 626 for the GUI thread)
Acquiring(a) ==
    IF a = GuiThread
    THEN gui \in {"redraw_next", "start_clear_1", "start_clear_2",
                  "stop_clear_1", "stop_clear_2"}
    ELSE pc[a] \in {"arrive", "enter", "woken", "cross"}

\* C19: no thread holds the lock or the condition of a road while it takes
\* another lock or condition, of that road or of the other one: a thread
\* holds at most one of them, and none where it is about to take one.
C19_NoNestedLocking ==
    \A a \in LockUsers :
        /\ Cardinality(Held(a)) <= 1
        /\ Acquiring(a) => Held(a) = {}

\* C19 witness: the GUI thread redraws road 1 under its lock while one car
\* of that road holds the condition in its admission scan and another,
\* its crossing over, has to wait for the lock
C19_Witness ==
    /\ lock[1] = GuiThread
    /\ \E c, d \in Threads :
          /\ condition[1] = c
          /\ pc[d] = "cross" /\ road_num[d] = 1

\* C21: while a run is active, every car whose state is "crossing" is an
\* element of its road's cars, so that the scan of can_cross sees it.
C21_CrossingCarsCounted ==
    RunActive =>
        \A r \in RoadNums : \A c \in Crossing(r) : InList(cars[r], c)

\* car c is inside a call of can_cross (line 501)
InCanCross(c) == pc[c] \in {"scan_any", "read_k", "scan_list"}

\* none of the cars can_cross found crossing, or fewer than k of them
FewerThanK(c) == crossing_cars[c] = << >> \/ Len(crossing_cars[c]) < k[c]

\* the step in which can_cross returns in case 2 (lines 532-548)
Returns(c) == pc[c] = "scan_list" /\ pc'[c] # "scan_list"

\* C22: every call of can_cross is made for a car whose position is 0, so
\* in case 2 the car is let in exactly when none or fewer than k of the
\* cars in road.cars are crossing: the spacing comparison of line 548 is
\* never reached.
C22_SpacingUnreachable ==
    [][\A c \in Threads :
          /\ InCanCross(c) => position[c] = 0
          /\ Returns(c) => (Admitted(c) <=> FewerThanK(c))]_vars

\* C22 witness: can_cross is about to return for a car that found a crossing
\* car and fewer than k of them, the case lines 540-548 decide
C22_Witness ==
    \E c \in Threads :
        /\ pc[c] = "scan_list"
        /\ scan_i[c] > Len(cars[road_num[c]])
        /\ crossing_cars[c] # << >>
        /\ Len(crossing_cars[c]) < k[c]

====
